---- MODULE Spec2Model ----
(***************************************************************************)
(* sops_anomaly: the AutoEncoder, LSTM_AD and Donut anomaly detectors.     *)
(*                                                                         *)
(* Each detector is an object with the operations train, predict and       *)
(* detect.  A call is one atomic step (the library is single-threaded and  *)
(* synchronous): it either returns a value or raises, and `call` records   *)
(* the most recent one.                                                    *)
(*                                                                         *)
(* Numbers.  Reconstruction errors, likelihoods and thresholds are exact   *)
(* rationals [num, den]; the floating-point rounding of the tensors is not *)
(* modelled.  The result of gradient descent is not computed: train picks  *)
(* the fitted parameters nondeterministically from a family of networks    *)
(* (Weights), and the forward pass of the fitted network is a              *)
(* deterministic function of those parameters and of the sample.           *)
(***************************************************************************)
EXTENDS Integers, Sequences, FiniteSets, TLC

VARIABLES
    ae,         \* the AutoEncoder instance's fields
    lstm,       \* the LSTM_AD instance's fields
    donut,      \* the Donut instances' fields, by instance name
    graph,      \* the process-wide default TensorFlow graph: the variable scopes opened in it
    call,       \* the most recent call: detector, operation, argument, outcome
    fitted,     \* history: the table of each instance's most recent completed train
                \* (for LSTM_AD its shape; for Donut with the first scope name used)
    fn          \* the argument and result of the pure function under check

vars == <<ae, lstm, donut, graph, call, fitted, fn>>

(***************************************************************************)
(* Bounds of the model.                                                    *)
(***************************************************************************)
MaxRows == 2        \* rows of a table given to the AutoEncoder
MaxWindow == 2      \* configured window sizes are 1..MaxWindow
MaxSteps == 4       \* rows of a table given to LSTM_AD
MaxHorizon == 2     \* configured horizons l_predictions are 1..MaxHorizon
MaxLen == 4         \* length of a series given to the LSTM_AD training transform
MaxLayers == 3      \* length of a hidden-layer schedule
MaxSize == 3        \* layer, input and latent sizes are 1..MaxSize
MaxExtraRows == 1   \* rows of a Donut table beyond the least count training accepts
MaxModels == 4      \* models one Donut instance builds

\* The values a cell of a table takes, and the numbers of columns of a table
\* (train and predict are given equally or differently many).
Values == {0, 1}
ColumnCounts == {1, 2}

(***************************************************************************)
(* Python's None, and an optional value.                                   *)
(***************************************************************************)
None == <<>>
Some(v) == <<v>>
Get(o) == o[1]

\* The two ways a call ends.
Raised == [raised |-> TRUE, value |-> None]
Returned(v) == [raised |-> FALSE, value |-> Some(v)]

(***************************************************************************)
(* Exact rationals.                                                        *)
(***************************************************************************)
Rat(n, d) == [num |-> n, den |-> d]
Zero == Rat(0, 1)
RatLeq(a, b) == a.num * b.den <= b.num * a.den
RatLt(a, b) == a.num * b.den < b.num * a.den
RatGeq(a, b) == RatLeq(b, a)
RatEq(a, b) == a.num * b.den = b.num * a.den
RatMul(a, b) == Rat(a.num * b.num, a.den * b.den)

RECURSIVE SumSeq(_)
SumSeq(s) == IF s = <<>> THEN 0 ELSE Head(s) + SumSeq(Tail(s))

RECURSIVE Concat(_)
Concat(ss) == IF ss = <<>> THEN <<>> ELSE Head(ss) \o Concat(Tail(ss))

NoReverse(s) == s

\* Python's reversed(s).
Reverse(s) == [i \in 1..Len(s) |-> s[Len(s) + 1 - i]]

\* All sequences over S of a length in lo..hi.
SeqsOf(S, lo, hi) == UNION {[1..n -> S] : n \in lo..hi}

(***************************************************************************)
(* Tables.  A table is the sequence of its rows, a row the sequence of its *)
(* cells.  The tables given to the detectors hold one series in every      *)
(* column (as the repository's demo does with value2 = value).             *)
(***************************************************************************)
Widen(series, d) == [t \in 1..Len(series) |-> [c \in 1..d |-> series[t]]]
TablesUpTo(rows) == {Widen(s, d) : s \in SeqsOf(Values, 1, rows), d \in ColumnCounts}
NCols(data) == Len(data[1])
Shape(data) == [rows |-> Len(data), cols |-> NCols(data)]

\* utils.window_data: every run of w consecutive rows, flattened into one row;
\* an error when the window is longer than the table.
window_data(data, w) ==
    IF w > Len(data) THEN Raised
    ELSE Returned([t \in 1..(Len(data) - w + 1) |->
                      Concat([k \in 1..w |-> data[t + k - 1]])])

(***************************************************************************)
(* AutoEncoder: the network (_AEModel).                                    *)
(***************************************************************************)
Linear(i, o) == [kind |-> "Linear", in_features |-> i, out_features |-> o]
ReLU == [kind |-> "ReLU", in_features |-> 0, out_features |-> 0]

\* _AEModel._build_layers: the linear layers from input_size through the
\* schedule to output_size.
build_layers(input_size, layers, output_size) ==
    IF Len(layers) > 0
    THEN LET input_layer == Linear(input_size, layers[1])
             output_layer == Linear(layers[Len(layers)], output_size)
             inner_layers == IF Len(layers) > 1
                             THEN [i \in 1..(Len(layers) - 1) |->
                                      Linear(layers[i], layers[i + 1])]
                             ELSE <<>>
         IN  <<input_layer>> \o inner_layers \o <<output_layer>>
    ELSE <<Linear(input_size, output_size)>>

\* _AEModel._build_network: an activation after every layer but the last.
build_network(layers) ==
    Concat([i \in 1..(Len(layers) - 1) |-> <<layers[i], ReLU>>])
        \o <<layers[Len(layers)]>>

get_encoder(input_size, layers, output_size) ==
    build_network(build_layers(input_size, layers, output_size))

get_decoder(input_size, layers, output_size) ==
    build_network(build_layers(input_size, layers, output_size))

\* The parameters a fitted network may have: its output is gain * x + bias
\* in every coordinate (the identity, the constant 0).
Weights == {[gain |-> 1, bias |-> 0], [gain |-> 0, bias |-> 0]}

\* _AEModel.__init__, with the parameters the optimizer leaves in it.
AEModel(input_size, latent_size, layers, w) ==
    [encoder  |-> get_encoder(input_size, layers, latent_size),
     decoder  |-> get_decoder(latent_size, Reverse(layers), input_size),
     weights  |-> w,
     training |-> TRUE]

\* nn.Linear raises on a sample whose size is not the first layer's in_features.
Accepts(model, sample) == Len(sample) = model.encoder[1].in_features

\* _AEModel.forward on an accepted sample.
forward(model, sample) ==
    [i \in 1..Len(sample) |-> model.weights.gain * sample[i] + model.weights.bias]

\* F.mse_loss: the mean of the squared differences.
mse_loss(rec, sample) ==
    Rat(SumSeq([i \in 1..Len(sample) |-> (rec[i] - sample[i]) * (rec[i] - sample[i])]),
        Len(sample))

(***************************************************************************)
(* AutoEncoder: the detector.                                              *)
(***************************************************************************)
DefaultLayers == <<500, 200>>
DefaultLatent == 100
Thresholds == {Rat(4, 5), Rat(1, 1)}

\* AutoEncoder.__init__
AutoEncoder(window_size, latent_size, layers, threshold) ==
    [model       |-> None,
     layers      |-> layers,
     window_size |-> window_size,
     input_size  |-> 0,
     latent_size |-> latent_size,
     threshold   |-> threshold,
     max_error   |-> Zero]

transform_data(self, data) == window_data(data, self.window_size)

\* _data_to_tensors: one tensor per row.
data_to_tensors(data) == [t \in 1..Len(data) |-> data[t]]

np_first_mutant(scores) == scores[1]

\* np.max of a non-empty array.
RECURSIVE np_max(_)
np_max(scores) ==
    IF Len(scores) = 1 THEN scores[1]
    ELSE LET m == np_max(Tail(scores))
         IN  IF RatGeq(scores[1], m) THEN scores[1] ELSE m

\* AutoEncoder._compute_threshold: the largest per-sample error.
compute_threshold(model, data) ==
    np_max([t \in 1..Len(data) |-> mse_loss(forward(model, data[t]), data[t])])

\* AutoEncoder.train: the fields after the call, or Raised (fields as before).
AutoEncoder_train(self, train_data, w) ==
    LET windowed == IF self.window_size > 1
                    THEN transform_data(self, train_data)
                    ELSE Returned(train_data)
    IN  IF windowed.raised THEN Raised
        ELSE LET rows    == Get(windowed.value)
                 size    == Len(rows[1])
                 tensors == data_to_tensors(rows)
                 model   == AEModel(size, self.latent_size, self.layers, w)
             IN  Returned([self EXCEPT
                     !.input_size = size,
                     !.model      = Some([model EXCEPT !.training = FALSE]),
                     !.max_error  = compute_threshold(model, tensors)])

\* The zero padding of AutoEncoder.predict.
padding(self) == [i \in 1..(self.window_size - 1) |-> Zero]

\* AutoEncoder.predict: the score array, or Raised.
AutoEncoder_predict(self, data) ==
    LET windowed == IF self.window_size > 1
                    THEN transform_data(self, data)
                    ELSE Returned(data)
    IN  IF windowed.raised THEN Raised
        ELSE IF self.model = None THEN Raised
        ELSE LET input_data == data_to_tensors(Get(windowed.value))
                 model      == Get(self.model)
             IN  IF \E t \in 1..Len(input_data) : ~Accepts(model, input_data[t])
                 THEN Raised
                 ELSE Returned(padding(self) \o
                        [t \in 1..Len(input_data) |->
                            mse_loss(forward(model, input_data[t]), input_data[t])])

is_anomaly_strict_mutant(self, score) ==
    IF RatLt(RatMul(self.threshold, self.max_error), score) THEN 1 ELSE 0

\* The comparison of AutoEncoder.detect.
is_anomaly(self, score) ==
    IF RatGeq(score, RatMul(self.threshold, self.max_error)) THEN 1 ELSE 0

\* AutoEncoder.detect: the 0/1 mask, or Raised.
AutoEncoder_detect(self, data) ==
    LET scores == AutoEncoder_predict(self, data)
    IN  IF scores.raised THEN Raised
        ELSE Returned([i \in 1..Len(Get(scores.value)) |->
                          is_anomaly(self, Get(scores.value)[i])])

(***************************************************************************)
(* The record of a call, and the values of the variables a specification   *)
(* does not use.                                                           *)
(***************************************************************************)
Called(det, self, op, data, outcome) ==
    [det |-> det, self |-> self, op |-> op, data |-> data,
     raised |-> outcome.raised, value |-> outcome.value]

NoCall == [det |-> "", self |-> "", op |-> "", data |-> <<>>,
           raised |-> FALSE, value |-> None]

Instances == {"ae", "lstm", "A", "B"}
NeverFitted == [i \in Instances |-> None]
NoFn == [name |-> "", args |-> <<>>, ret |-> None]

(***************************************************************************)
(* The AutoEncoder's operations.                                           *)
(***************************************************************************)
AETables == TablesUpTo(MaxRows)

AETrain(data, w) ==
    LET out == AutoEncoder_train(ae, data, w)
    IN  /\ ae' = IF out.raised THEN ae ELSE Get(out.value)
        /\ fitted' = IF out.raised THEN fitted ELSE [fitted EXCEPT !["ae"] = Some(data)]
        /\ call' = Called("AutoEncoder", "ae", "train", data,
                          IF out.raised THEN Raised ELSE Returned(None))
        /\ UNCHANGED <<lstm, donut, graph, fn>>

AEPredict(data) ==
    /\ call' = Called("AutoEncoder", "ae", "predict", data, AutoEncoder_predict(ae, data))
    /\ UNCHANGED <<ae, lstm, donut, graph, fitted, fn>>

AEDetect(data) ==
    /\ call' = Called("AutoEncoder", "ae", "detect", data, AutoEncoder_detect(ae, data))
    /\ UNCHANGED <<ae, lstm, donut, graph, fitted, fn>>

(***************************************************************************)
(* LSTM_AD: slicing and the data transforms.                               *)
(***************************************************************************)
\* Python's s[lo:hi] on a sequence: a negative bound counts from the end,
\* and both are clipped to the sequence.
PyIndex(n, i) ==
    LET j == IF i < 0 THEN i + n ELSE i
    IN  IF j < 0 THEN 0 ELSE IF j > n THEN n ELSE j

PySlice(s, lo, hi) == SubSeq(s, PyIndex(Len(s), lo) + 1, PyIndex(Len(s), hi))

\* Python's s[lo:]
PySliceFrom(s, lo) == SubSeq(s, PyIndex(Len(s), lo) + 1, Len(s))

target_slices_unshifted_mutant(values, l_preds) ==
    [i \in 1..(l_preds - 1) |-> PySlice(values, (i - 1), -l_preds + (i - 1))]
        \o <<PySliceFrom(values, l_preds)>>

\* The shifted copies stacked by _transform_train_data_target, in order.
target_slices(values, l_preds) ==
    [i \in 1..(l_preds - 1) |-> PySlice(values, 1 + (i - 1), -l_preds + (i - 1) + 1)]
        \o <<PySliceFrom(values, l_preds)>>

\* np.stack(..., axis=3): element [t][d][i] is element [t][d] of the i-th array.
np_stack(arrays, ncols) ==
    [t \in 1..Len(arrays[1]) |->
        [d \in 1..ncols |-> [i \in 1..Len(arrays) |-> arrays[i][t][d]]]]

\* LSTM_AD._transform_train_data_target
transform_train_data_target(data, l_preds) ==
    LET values        == data
        train_data    == PySlice(values, 0, -l_preds)
        train_targets == np_stack(target_slices(values, l_preds), NCols(data))
    IN  [train_data |-> train_data, train_targets |-> train_targets]

\* LSTM_AD._transform_eval_data_target
transform_eval_data_target(data, l_preds) ==
    LET values == data
    IN  [eval_data   |-> PySlice(values, 0, -l_preds),
         eval_target |-> PySlice(values, l_preds, -l_preds + 1)]

(***************************************************************************)
(* LSTM_AD: the error distribution (detectors/error_distribution.py).      *)
(* The fitted distribution is the empirical one of the residual vectors    *)
(* it was fitted on; the likelihood of a residual vector is its share      *)
(* among them.                                                             *)
(***************************************************************************)
\* ErrorDistribution(d, l), not yet fitted.
ErrorDistribution(d, l) == [d |-> d, l |-> l, residuals |-> None]

\* ErrorDistribution.get_errors: for every target, the residuals of the
\* l predictions made of it (by the inputs 1..l steps before it), flattened.
get_errors(outputs, targets, l_preds) ==
    [j \in 1..Len(targets) |->
        Concat([d \in 1..Len(targets[j]) |->
            [i \in 1..l_preds |-> outputs[l_preds + j - i][d][i] - targets[j][d]]])]

\* ErrorDistribution.fit on a non-empty set of residuals.
fit(dist, errors) == [dist EXCEPT !.residuals = Some(errors)]

\* ErrorDistribution.__call__ on a fitted distribution: one likelihood per row.
likelihood(dist, errors) ==
    LET seen == Get(dist.residuals)
    IN  [j \in 1..Len(errors) |->
            IF Len(seen) = 0 THEN Zero
            ELSE Rat(Cardinality({k \in 1..Len(seen) : seen[k] = errors[j]}), Len(seen))]

(***************************************************************************)
(* LSTM_AD: the detector.                                                  *)
(***************************************************************************)
DefaultHidden == 400

\* LSTM_AD.__init__
LSTM_AD(l_predictions, hidden_size, threshold) ==
    [model       |-> None,
     threshold   |-> threshold,
     hidden_size |-> hidden_size,
     l_preds     |-> l_predictions,
     d_size      |-> 0,
     error_dist  |-> None]

\* LSTM_AD._initialize_model: a fresh network (in training mode, as nn.Module
\* starts) and a fresh, unfitted error distribution.
initialize_model(self, w) ==
    [self EXCEPT
        !.model = Some([input_size |-> self.d_size,
                        proj_size  |-> self.l_preds * self.d_size,
                        weights    |-> w,
                        training   |-> TRUE]),
        !.error_dist = Some(ErrorDistribution(self.d_size, self.l_preds))]

\* LSTM_AD._get_model_outputs with _reshape_outputs: l_preds predicted values
\* for each input row and dimension.
get_model_outputs(self, inputs) ==
    LET w == Get(self.model).weights
    IN  [t \in 1..Len(inputs) |->
            [d \in 1..self.d_size |->
                [i \in 1..self.l_preds |-> w.gain * inputs[t][d] + w.bias]]]

\* nn.LSTM raises on rows whose width is not its input_size.
lstm_accepts(self, data) == NCols(data) = Get(self.model).input_size

\* scores[lo:hi] = p on a numpy array: p fills the slice, a one-element p is
\* broadcast, any other length raises.
assign_slice(scores, lo, hi, p) ==
    LET a == PyIndex(Len(scores), lo)
        b == PyIndex(Len(scores), hi)
        n == IF b > a THEN b - a ELSE 0
    IN  IF Len(p) = n
        THEN Returned([k \in 1..Len(scores) |->
                          IF k > a /\ k <= b THEN p[k - a] ELSE scores[k]])
        ELSE IF Len(p) = 1
        THEN Returned([k \in 1..Len(scores) |->
                          IF k > a /\ k <= b THEN p[1] ELSE scores[k]])
        ELSE Raised

\* LSTM_AD._get_scores
get_scores(self, data, errors) ==
    LET p      == likelihood(Get(self.error_dist), errors)
        scores == [k \in 1..Len(data) |-> Zero]
    IN  assign_slice(scores, self.l_preds, -self.l_preds + 1, p)

\* model.eval()
eval_mode(self) == [self EXCEPT !.model = Some([Get(self.model) EXCEPT !.training = FALSE])]

\* LSTM_AD.train: the fields after the call and whether it raised.  A forward
\* pass over no rows, and a fit to no residuals, may raise or go through
\* (emptyOk): the source does not decide it.
LSTM_AD_train(self, data, w, emptyOk) ==
    LET tt      == transform_train_data_target(data, self.l_preds)
        s1      == initialize_model([self EXCEPT !.d_size = NCols(data)], w)
        ev      == transform_eval_data_target(data, self.l_preds)
        s2      == eval_mode(s1)
        outputs == get_model_outputs(s2, ev.eval_data)
        errors  == get_errors(outputs, ev.eval_target, self.l_preds)
    IN  IF Len(tt.train_data) = 0 /\ ~emptyOk
        THEN [raised |-> TRUE, self |-> s1]
        ELSE IF Len(ev.eval_target) = 0 /\ ~emptyOk
        THEN [raised |-> TRUE, self |-> s2]
        ELSE [raised |-> FALSE,
              self   |-> [s2 EXCEPT !.error_dist = Some(fit(Get(s2.error_dist), errors))]]

\* LSTM_AD.predict: the outcome and the fields after the call.
LSTM_AD_predict(self, data, emptyOk) ==
    IF self.model = None THEN [out |-> Raised, self |-> self]
    ELSE LET s1      == eval_mode(self)
             ev      == transform_eval_data_target(data, self.l_preds)
             outputs == get_model_outputs(s1, ev.eval_data)
             errors  == get_errors(outputs, ev.eval_target, self.l_preds)
         IN  IF ~lstm_accepts(s1, data) THEN [out |-> Raised, self |-> s1]
             ELSE IF Len(ev.eval_data) = 0 /\ ~emptyOk THEN [out |-> Raised, self |-> s1]
             ELSE IF Get(s1.error_dist).residuals = None THEN [out |-> Raised, self |-> s1]
             ELSE [out |-> get_scores(s1, data, errors), self |-> s1]

\* The comparison of LSTM_AD.detect.
below_threshold(self, score) == IF RatLt(score, self.threshold) THEN 1 ELSE 0

\* LSTM_AD.detect
LSTM_AD_detect(self, data, emptyOk) ==
    LET r == LSTM_AD_predict(self, data, emptyOk)
    IN  IF r.out.raised THEN r
        ELSE [out  |-> Returned([k \in 1..Len(Get(r.out.value)) |->
                                    below_threshold(self, Get(r.out.value)[k])]),
              self |-> r.self]

(***************************************************************************)
(* The LSTM_AD's operations.                                               *)
(***************************************************************************)
LSTMTables == TablesUpTo(MaxSteps)

\* The calls whose outcome the source leaves open: those that run the network
\* over no rows or fit the distribution to no residuals.
Degenerate(data) ==
    Len(transform_eval_data_target(data, lstm.l_preds).eval_target) = 0

LSTMTrain(data, w, emptyOk) ==
    /\ emptyOk \/ Degenerate(data)
    /\ LET r == LSTM_AD_train(lstm, data, w, emptyOk)
       IN  /\ lstm' = r.self
           /\ fitted' = IF r.raised THEN fitted
                        ELSE [fitted EXCEPT !["lstm"] = Some(Shape(data))]
           /\ call' = Called("LSTM_AD", "lstm", "train", data,
                             IF r.raised THEN Raised ELSE Returned(None))
    /\ UNCHANGED <<ae, donut, graph, fn>>

LSTMPredict(data, emptyOk) ==
    /\ emptyOk \/ Degenerate(data)
    /\ LET r == LSTM_AD_predict(lstm, data, emptyOk)
       IN  /\ lstm' = r.self
           /\ call' = Called("LSTM_AD", "lstm", "predict", data, r.out)
    /\ UNCHANGED <<ae, donut, graph, fitted, fn>>

LSTMDetect(data, emptyOk) ==
    /\ emptyOk \/ Degenerate(data)
    /\ LET r == LSTM_AD_detect(lstm, data, emptyOk)
       IN  /\ lstm' = r.self
           /\ call' = Called("LSTM_AD", "lstm", "detect", data, r.out)
    /\ UNCHANGED <<ae, donut, graph, fitted, fn>>

(***************************************************************************)
(* Donut.  A table is given by its number of rows and its columns; a       *)
(* column is named by its position in the table and, once windowed, by its *)
(* lag inside the window.  The index has no gaps, so complete_timestamp    *)
(* returns its arguments as they are and reports nothing missing.          *)
(* A score is not computed: the array a predictor returns for a column is  *)
(* named by the fitted variables that produce it and by the column.        *)
(***************************************************************************)
x_dims == 120

Column(c, lag) == [column |-> c, lag |-> lag]
Frame(rows, ncols) == [rows |-> rows, columns |-> [c \in 1..ncols |-> Column(c, 0)]]

\* utils.window_data on a frame: w consecutive rows side by side.
window_frame(data, w) ==
    IF w > data.rows THEN Raised
    ELSE Returned([rows    |-> data.rows - w + 1,
                   columns |-> Concat([k \in 1..w |->
                                  [c \in 1..Len(data.columns) |->
                                      Column(data.columns[c].column, k - 1)]])])

\* DonutTrainer.fit keeps the last 3/10 of the rows for validation and slides
\* a window of x_dims over each part: it raises unless both parts hold one.
fit_accepts(rows) ==
    LET n == (3 * rows) \div 10
    IN  n >= x_dims /\ rows - n >= x_dims

\* The least number of rows DonutTrainer.fit accepts.
MinFitRows ==
    CHOOSE n \in x_dims..(4 * x_dims) :
        fit_accepts(n) /\ \A m \in x_dims..(n - 1) : ~fit_accepts(m)

DonutRows == {x_dims} \cup (MinFitRows..(MinFitRows + MaxExtraRows))
DonutTables == {Frame(r, d) : r \in DonutRows, d \in ColumnCounts}

\* Donut.__init__
Donut(window_size) ==
    [window_size   |-> window_size,
     models        |-> <<>>,
     sessions      |-> <<>>,
     predictors    |-> <<>>,
     model_counter |-> 0]

\* The name Donut._build_model gives its variable scope: f'model{counter}'.
scope_name(self) == self.model_counter

\* Donut._build_model: the model, and the fields with the counter advanced.
build_model(self, name) ==
    [model |-> [scope |-> scope_name(self), by |-> name],
     self  |-> [self EXCEPT !.model_counter = self.model_counter + 1]]

\* One turn of the loop of Donut.train over a column that fit accepts.
RECURSIVE train_columns(_, _, _, _)
train_columns(self, name, columns, i) ==
    IF i > Len(columns) THEN self
    ELSE LET b       == build_model(self, name)
             session == [variables |-> b.model, fit_on |-> columns[i]]
         IN  train_columns(
                 [b.self EXCEPT !.models     = Append(b.self.models, b.model),
                                !.predictors = Append(b.self.predictors, [model |-> b.model]),
                                !.sessions   = Append(b.self.sessions, session)],
                 name, columns, i + 1)

\* Donut.train: the fields after the call and whether it raised.  Every
\* column has the same rows, so fit raises on the first column or on none.
Donut_train(self, name, train_data) ==
    LET windowed == window_frame(train_data, self.window_size)
    IN  IF windowed.raised THEN [raised |-> TRUE, self |-> self]
        ELSE IF ~fit_accepts(Get(windowed.value).rows)
        THEN [raised |-> TRUE, self |-> build_model(self, name).self]
        ELSE [raised |-> FALSE,
              self   |-> train_columns(self, name, Get(windowed.value).columns, 1)]

\* The variable scopes a call of Donut.train opens in the default graph.
scopes_opened(before, after, name) ==
    {[scope |-> k, by |-> name] : k \in before.model_counter..(after.model_counter - 1)}

\* DonutPredictor.get_score: one score per window of x_dims values.
get_score(session, column, rows) ==
    [len |-> rows - x_dims + 1, by |-> session, of |-> column]

\* np.mean(results, axis=0) of arrays of one length: at every position the
\* sum of the arrays' entries over their count.
np_mean(results) ==
    [len   |-> results[1].len,
     count |-> Len(results),
     terms |-> [i \in 1..Len(results) |-> [by |-> results[i].by, of |-> results[i].of]]]

\* Donut.predict
Donut_predict(self, data) ==
    LET windowed == window_frame(data, self.window_size)
    IN  IF windowed.raised THEN Raised
        ELSE LET frame == Get(windowed.value)
             IN  IF Len(frame.columns) > Len(self.sessions) THEN Raised
                 ELSE IF frame.rows < x_dims THEN Raised
                 ELSE Returned(np_mean([i \in 1..Len(frame.columns) |->
                          get_score(self.sessions[i], frame.columns[i], frame.rows)]))

\* Donut.detect: its body is `pass`.
Donut_detect(self, data) == Returned(None)

(***************************************************************************)
(* The Donut instances' operations.                                        *)
(***************************************************************************)
DonutNames == {"A", "B"}

DonutTrain(name, data) ==
    LET r == Donut_train(donut[name], name, data)
    IN  /\ r.self.model_counter <= MaxModels
        /\ donut' = [donut EXCEPT ![name] = r.self]
        /\ graph' = graph \cup scopes_opened(donut[name], r.self, name)
        /\ fitted' = IF r.raised THEN fitted
                     ELSE [fitted EXCEPT ![name] =
                              Some([rows    |-> data.rows,
                                    columns |-> data.columns,
                                    first   |-> scope_name(donut[name])])]
        /\ call' = Called("Donut", name, "train", data,
                          IF r.raised THEN Raised ELSE Returned(None))
        /\ UNCHANGED <<ae, lstm, fn>>

DonutPredict(name, data) ==
    /\ call' = Called("Donut", name, "predict", data, Donut_predict(donut[name], data))
    /\ UNCHANGED <<ae, lstm, donut, graph, fitted, fn>>

DonutDetect(name, data) ==
    /\ call' = Called("Donut", name, "detect", data, Donut_detect(donut[name], data))
    /\ UNCHANGED <<ae, lstm, donut, graph, fitted, fn>>

(***************************************************************************)
(* The pure functions under check: the network builder and the training    *)
(* transform, applied to an argument drawn at the start.                   *)
(***************************************************************************)
Sizes == 1..MaxSize
Schedules == SeqsOf(Sizes, 0, MaxLayers)

\* Every table of up to MaxLen rows.
SeriesTables ==
    UNION {[1..n -> [1..d -> Values]] : n \in 1..MaxLen, d \in ColumnCounts}

\* The example of the docstring of _transform_train_data_target.
DocExample == <<Widen(<<1, 2, 3, 4, 5, 6, 7>>, 1), 3>>

TransformArgs == (SeriesTables \X (1..MaxHorizon)) \cup {DocExample}

BuildModel ==
    /\ fn.name = "_AEModel" /\ fn.ret = None
    /\ \E w \in Weights :
          fn' = [fn EXCEPT !.ret = Some(AEModel(fn.args[1], fn.args[2], fn.args[3], w))]
    /\ UNCHANGED <<ae, lstm, donut, graph, call, fitted>>

TransformTrain ==
    /\ fn.name = "_transform_train_data_target" /\ fn.ret = None
    /\ fn' = [fn EXCEPT !.ret = Some(transform_train_data_target(fn.args[1], fn.args[2]))]
    /\ UNCHANGED <<ae, lstm, donut, graph, call, fitted>>

(***************************************************************************)
(* Specifications: one per detector, and one per pure function.            *)
(***************************************************************************)
DefaultLSTMThreshold == Rat(9, 10)
IdleAE == AutoEncoder(1, DefaultLatent, DefaultLayers, Rat(4, 5))
IdleLSTM == LSTM_AD(1, DefaultHidden, DefaultLSTMThreshold)
IdleDonut == [n \in DonutNames |-> Donut(1)]

InitAE ==
    /\ ae \in {AutoEncoder(w, DefaultLatent, DefaultLayers, th) :
                  w \in 1..MaxWindow, th \in Thresholds}
    /\ lstm = IdleLSTM /\ donut = IdleDonut /\ graph = {}
    /\ call = NoCall /\ fitted = NeverFitted /\ fn = NoFn

NextAE ==
    \E data \in AETables :
        \/ \E w \in Weights : AETrain(data, w)
        \/ AEPredict(data)
        \/ AEDetect(data)

SpecAE == InitAE /\ [][NextAE]_vars

InitLSTM ==
    /\ lstm \in {LSTM_AD(l, DefaultHidden, DefaultLSTMThreshold) : l \in 1..MaxHorizon}
    /\ ae = IdleAE /\ donut = IdleDonut /\ graph = {}
    /\ call = NoCall /\ fitted = NeverFitted /\ fn = NoFn

NextLSTM ==
    \E data \in LSTMTables, emptyOk \in BOOLEAN :
        \/ \E w \in Weights : LSTMTrain(data, w, emptyOk)
        \/ LSTMPredict(data, emptyOk)
        \/ LSTMDetect(data, emptyOk)

SpecLSTM == InitLSTM /\ [][NextLSTM]_vars

InitDonut ==
    /\ donut \in [DonutNames -> {Donut(w) : w \in 1..MaxWindow}]
    /\ ae = IdleAE /\ lstm = IdleLSTM /\ graph = {}
    /\ call = NoCall /\ fitted = NeverFitted /\ fn = NoFn

NextDonut ==
    \E name \in DonutNames, data \in DonutTables :
        \/ DonutTrain(name, data)
        \/ DonutPredict(name, data)
        \/ DonutDetect(name, data)

SpecDonut == InitDonut /\ [][NextDonut]_vars

InitLayers ==
    /\ fn \in {[name |-> "_AEModel", args |-> <<i, l, s>>, ret |-> None] :
                  i \in Sizes, l \in Sizes, s \in Schedules}
    /\ ae = IdleAE /\ lstm = IdleLSTM /\ donut = IdleDonut /\ graph = {}
    /\ call = NoCall /\ fitted = NeverFitted

SpecLayers == InitLayers /\ [][BuildModel]_vars

InitTransform ==
    /\ fn \in {[name |-> "_transform_train_data_target", args |-> a, ret |-> None] :
                  a \in TransformArgs}
    /\ ae = IdleAE /\ lstm = IdleLSTM /\ donut = IdleDonut /\ graph = {}
    /\ call = NoCall /\ fitted = NeverFitted

SpecTransform == InitTransform /\ [][TransformTrain]_vars

\* The whole library: any of the above.
Init == InitAE \/ InitLSTM \/ InitDonut \/ InitLayers \/ InitTransform
Next == NextAE \/ NextLSTM \/ NextDonut \/ BuildModel \/ TransformTrain
Spec == Init /\ [][Next]_vars

(***************************************************************************)
(* Properties.                                                             *)
(***************************************************************************)
AEPredictReturned ==
    call.det = "AutoEncoder" /\ call.op = "predict" /\ ~call.raised

\* C2: after train(data) of the AutoEncoder, predict(data) on the same table
\* returns only entries (padding and reconstruction errors) that are at most
\* _max_error, and _max_error is itself one of the reconstruction errors.
C2_SameDataWithinMaxError ==
    (AEPredictReturned /\ fitted["ae"] = Some(call.data)) =>
        LET scores == Get(call.value)
        IN  /\ \A i \in 1..Len(scores) : RatLeq(scores[i], ae.max_error)
            /\ \E i \in ae.window_size..Len(scores) : RatEq(scores[i], ae.max_error)

\* A predict on the training table, with padding, with samples of different
\* errors, and with a positive threshold learned.
C2_Witness ==
    /\ AEPredictReturned /\ fitted["ae"] = Some(call.data)
    /\ ae.window_size = 2
    /\ ae.max_error.num > 0
    /\ Len(Get(call.value)) = Len(call.data)

\* C3: for every hidden-layer schedule, the encoder's linear layers have the
\* (in, out) sizes of the consecutive pairs of (input_size, *layers,
\* latent_size), the decoder's those of that sequence reversed; the linear
\* layers sit at every second place of each Sequential, starting with the
\* first, with an activation between them and none after the last.
Shaped(network, sizes) ==
    /\ Len(network) = 2 * (Len(sizes) - 1) - 1
    /\ \A k \in 1..(Len(sizes) - 1) :
          network[2 * k - 1] = Linear(sizes[k], sizes[k + 1])
    /\ \A k \in 1..(Len(sizes) - 2) : network[2 * k].kind = "ReLU"

C3_LayerShapes ==
    (fn.name = "_AEModel" /\ fn.ret # None) =>
        LET sizes == <<fn.args[1]>> \o fn.args[3] \o <<fn.args[2]>>
        IN  /\ Shaped(Get(fn.ret).encoder, sizes)
            /\ Shaped(Get(fn.ret).decoder,
                      [k \in 1..Len(sizes) |-> sizes[Len(sizes) + 1 - k]])

\* A network built from a schedule of two different sizes.
C3_Witness ==
    /\ fn.name = "_AEModel" /\ fn.ret # None
    /\ fn.args = <<3, 1, <<3, 2>>>>
    /\ Len(Get(fn.ret).encoder) = 5 /\ Len(Get(fn.ret).decoder) = 5

\* C4: detect of a trained AutoEncoder returns an array as long as predict's
\* whose entries are 0 or 1, entry i being 1 exactly when predict's entry i is
\* at least threshold_ratio times the maximum training error set by the most
\* recent train.
C4_DetectThresholdsPredict ==
    (call.det = "AutoEncoder" /\ call.op = "detect" /\ ~call.raised) =>
        LET mask    == Get(call.value)
            scores  == AutoEncoder_predict(ae, call.data)
            trained == Get(fitted["ae"])
            windows == IF ae.window_size > 1
                       THEN Get(window_data(trained, ae.window_size).value)
                       ELSE trained
            errors  == [t \in 1..Len(windows) |->
                           mse_loss(forward(Get(ae.model), windows[t]), windows[t])]
            limit   == RatMul(ae.threshold, ae.max_error)
        IN  /\ ~scores.raised
            /\ Len(mask) = Len(Get(scores.value))
            /\ \A t \in 1..Len(errors) : RatLeq(errors[t], ae.max_error)
            /\ \E t \in 1..Len(errors) : RatEq(errors[t], ae.max_error)
            /\ \A i \in 1..Len(mask) :
                  /\ mask[i] \in {0, 1}
                  /\ mask[i] = 1 <=>
                        Get(scores.value)[i].num * limit.den
                            >= limit.num * Get(scores.value)[i].den

\* A detect that marks one row and not another.
C4_Witness ==
    /\ call.det = "AutoEncoder" /\ call.op = "detect" /\ ~call.raised
    /\ \E i, j \in 1..Len(Get(call.value)) :
          Get(call.value)[i] = 1 /\ Get(call.value)[j] = 0

\* C6: for a series of n rows and a horizon L with 1 <= L < n, the training
\* transform returns the first n-L rows as inputs and n-L targets, the target
\* at position t being the L rows that follow row t, in order.
C6_TrainTargets ==
    (fn.name = "_transform_train_data_target" /\ fn.ret # None
        /\ fn.args[2] >= 1 /\ fn.args[2] < Len(fn.args[1])) =>
        LET data == fn.args[1]
            L    == fn.args[2]
            n    == Len(data)
            ret  == Get(fn.ret)
        IN  /\ ret.train_data = SubSeq(data, 1, n - L)
            /\ Len(ret.train_targets) = n - L
            /\ \A t \in 1..(n - L) :
                  /\ Len(ret.train_targets[t]) = NCols(data)
                  /\ \A d \in 1..NCols(data) :
                        ret.train_targets[t][d] = [i \in 1..L |-> data[t + i][d]]

\* The docstring's example: [1..7] with L = 3.
C6_Witness ==
    /\ fn.name = "_transform_train_data_target" /\ fn.ret # None
    /\ fn.args = DocExample
    /\ Get(fn.ret).train_data = <<<<1>>, <<2>>, <<3>>, <<4>>>>
    /\ Get(fn.ret).train_targets =
          << <<<<2, 3, 4>>>>, <<<<3, 4, 5>>>>, <<<<4, 5, 6>>>>, <<<<5, 6, 7>>>> >>

\* The length of a returned score array, and the rows of the table given.
ScoreCount(c) == IF c.det = "Donut" THEN Get(c.value).len ELSE Len(Get(c.value))
RowCount(c) == IF c.det = "Donut" THEN c.data.rows ELSE Len(c.data)
ColCount(c) == IF c.det = "Donut" THEN Len(c.data.columns) ELSE NCols(c.data)

\* C1: for every detector, a predict that returns gives a score array as long
\* as the table it was given.
C1_PredictLengthEqualsInput ==
    (call.op = "predict" /\ ~call.raised) => ScoreCount(call) = RowCount(call)

\* C5: in the array LSTM_AD.predict returns, the first L and the last L
\* entries are the neutral value 0.
C5_FirstAndLastLNeutral ==
    (call.det = "LSTM_AD" /\ call.op = "predict" /\ ~call.raised) =>
        LET scores == Get(call.value)
            n      == Len(scores)
        IN  \A k \in 1..n :
                (k <= lstm.l_preds \/ k > n - lstm.l_preds) => RatEq(scores[k], Zero)

\* C7: predict or detect on an instance whose train has never completed
\* raises, and changes no field of any instance.
C7_UntrainedCallRaises ==
    [][(call' # call /\ call'.op \in {"predict", "detect"}
            /\ fitted[call'.self] = None)
        => (call'.raised /\ UNCHANGED <<ae, lstm, donut, graph, fitted>>)]_vars

\* The columns of the table of the instance's most recent completed train.
TrainedCols(c) ==
    LET t == Get(fitted[c.self])
    IN  IF c.det = "Donut" THEN Len(t.columns)
        ELSE IF c.det = "LSTM_AD" THEN t.cols ELSE NCols(t)

\* C8: predict on a table whose column count differs from that of the table
\* the detector was trained on raises.
C8_ColumnMismatchRaises ==
    (call.op = "predict" /\ fitted[call.self] # None
        /\ ColCount(call) # TrainedCols(call)) => call.raised

\* C9: predict of a Donut trained on a table with D columns, on a table with
\* the same D columns, is at every position the mean of one score per column
\* (per column of the windowed table), the score of column i coming from the
\* variables that the training fitted on column i.
C9_MeanOfOwnColumnModels ==
    (call.det = "Donut" /\ call.op = "predict" /\ ~call.raised
        /\ fitted[call.self] # None /\ ColCount(call) = TrainedCols(call)) =>
        LET self    == donut[call.self]
            columns == Get(window_frame(call.data, self.window_size).value).columns
            trained == Get(window_frame(Get(fitted[call.self]), self.window_size).value).columns
            mean    == Get(call.value)
            first   == Get(fitted[call.self]).first
        IN  /\ mean.count = Len(columns)
            /\ \A i \in 1..Len(columns) :
                  /\ mean.terms[i].of = columns[i]
                  /\ mean.terms[i].by.fit_on = trained[i]
                  /\ mean.terms[i].by.variables = [scope |-> first + i - 1, by |-> call.self]

\* C10: the variable scopes two distinct detector instances open never have
\* the same name.
C10_ScopeNamesNeverCollide ==
    \A a, b \in DonutNames :
        a # b =>
            \A i \in 1..Len(donut[a].models), j \in 1..Len(donut[b].models) :
                /\ donut[a].models[i] \in graph /\ donut[b].models[j] \in graph
                /\ donut[a].models[i].scope # donut[b].models[j].scope

\* C11: after two or more completed trains of one instance, the trained state
\* is that of the most recent train alone: the AutoEncoder's model takes the
\* width of, and _max_error is the largest error on, the last training table;
\* a Donut keeps as many models, predictors and sessions as the last training
\* table has (windowed) columns, the i-th being the one that train fitted on
\* column i.
C11_LastTrainReplaces ==
    /\ fitted["ae"] # None =>
          LET trained == Get(fitted["ae"])
              rows    == IF ae.window_size > 1
                         THEN Get(window_data(trained, ae.window_size).value)
                         ELSE trained
          IN  /\ ae.model # None
              /\ ae.input_size = Len(rows[1])
              /\ Get(ae.model).encoder[1].in_features = Len(rows[1])
              /\ Get(ae.model).decoder[Len(Get(ae.model).decoder)].out_features = Len(rows[1])
              /\ RatEq(ae.max_error, compute_threshold(Get(ae.model), rows))
    /\ \A name \in DonutNames :
          fitted[name] # None =>
              LET self    == donut[name]
                  last    == Get(fitted[name])
                  trained == Get(window_frame(last, self.window_size).value).columns
              IN  /\ Len(self.models) = Len(trained)
                  /\ Len(self.predictors) = Len(trained)
                  /\ Len(self.sessions) = Len(trained)
                  /\ \A i \in 1..Len(trained) :
                        /\ self.sessions[i].fit_on = trained[i]
                        /\ self.sessions[i].variables =
                              [scope |-> last.first + i - 1, by |-> name]
                        /\ self.predictors[i].model = self.sessions[i].variables

\* The positions of the array LSTM_AD.predict returns that _get_scores leaves
\* at the value np.zeros gave them.
LSTMPadded(n, L) == {k \in 1..n : k <= L \/ k > n - L + 1}

\* C12: detect of a trained AutoEncoder or LSTM_AD reports 0 at every position
\* that predict fills with padding: the first W-1 positions for the
\* AutoEncoder, the leading and trailing positions no likelihood is assigned
\* to for LSTM_AD.
C12_PaddingNotAnomalous ==
    /\ (call.det = "AutoEncoder" /\ call.op = "detect" /\ ~call.raised) =>
          \A k \in 1..(ae.window_size - 1) : Get(call.value)[k] = 0
    /\ (call.det = "LSTM_AD" /\ call.op = "detect" /\ ~call.raised) =>
          \A k \in LSTMPadded(Len(Get(call.value)), lstm.l_preds) :
              Get(call.value)[k] = 0
====
